---- MODULE Spec2Model ----
(***************************************************************************)
(* The four command-line scripts of the repository, one run at a time:     *)
(*   "link"    src/index.ts                      (combined link script)    *)
(*   "staking" src/unnamed/part_001              (standalone finalizer)    *)
(*   "sign"    src/scripts/sign_message_and_call_api.ts, lines 1-81        *)
(*   "tx"      src/scripts/sign_message_and_call_api.ts, lines 83-151      *)
(* A step of the model is the code between two awaits of a script.         *)
(* Strings are sequences of one-character strings; a bigint or a double    *)
(* holding an integer is a triple of 24-bit limbs <<hi, mid, lo>>.         *)
(***************************************************************************)
EXTENDS Integers, Sequences, FiniteSets, TLC

(***************************** bounds ***************************************)

\* number of runs the operator starts in one behaviour
MaxRuns == 2

\* number of milliseconds the clock advances in one behaviour
MaxTicks == 1

\* number of required variables that may be missing or blank in one run
MaxDefects == 1

(***************************** strings **************************************)

Digits == <<"0", "1", "2", "3", "4", "5", "6", "7", "8", "9">>

IsDigit(ch) == \E i \in 1..10 : Digits[i] = ch

DigitVal(ch) == (CHOOSE i \in 1..10 : Digits[i] = ch) - 1

\* String.prototype.trim on the characters of the model: blanks at both ends
RECURSIVE TrimLeft(_)
TrimLeft(s) == IF s # <<>> /\ Head(s) = " " THEN TrimLeft(Tail(s)) ELSE s

RECURSIVE TrimRight(_)
TrimRight(s) ==
    IF s # <<>> /\ s[Len(s)] = " " THEN TrimRight(SubSeq(s, 1, Len(s) - 1)) ELSE s

Trim(s) == TrimRight(TrimLeft(s))

Upper == <<"A", "B", "C", "D", "E", "F", "P", "T", "X">>

Lower == <<"a", "b", "c", "d", "e", "f", "p", "t", "x">>

LowerChar(ch) ==
    IF \E i \in 1..Len(Upper) : Upper[i] = ch
    THEN Lower[CHOOSE i \in 1..Len(Upper) : Upper[i] = ch]
    ELSE ch

\* String.prototype.toLowerCase
toLowerCase(s) == [i \in 1..Len(s) |-> LowerChar(s[i])]

\* an environment variable is undefined or holds a string
Undef == [def |-> FALSE, str |-> <<>>]

Str(s) == [def |-> TRUE, str |-> s]

\* JavaScript truthiness of string | undefined
Truthy(v) == v.def /\ v.str # <<>>

(***************************** numbers **************************************)

RECURSIVE Pow2(_)
Pow2(k) == IF k = 0 THEN 1 ELSE 2 * Pow2(k - 1)

\* the radix of a limb
Base == Pow2(24)

Zero == <<0, 0, 0>>

\* n * 10 + d on limbs
MulAdd10(n, d) ==
    LET lo  == n[3] * 10 + d
        mid == n[2] * 10 + (lo \div Base)
        hi  == n[1] * 10 + (mid \div Base)
    IN  <<hi, mid % Base, lo % Base>>

RECURSIVE ParseDigits(_, _)
ParseDigits(s, acc) ==
    IF s = <<>> THEN acc ELSE ParseDigits(Tail(s), MulAdd10(acc, DigitVal(Head(s))))

AllDigits(s) == \A i \in 1..Len(s) : IsDigit(s[i])

\* BigInt(string): StringToBigInt trims white space, reads the empty string
\* as 0n, accepts an optional minus sign before decimal digits and throws a
\* SyntaxError on anything else.
BigIntOfString(s) ==
    LET t    == Trim(s)
        neg  == t # <<>> /\ Head(t) = "-"
        body == IF neg THEN Tail(t) ELSE t
    IN  IF t = <<>> THEN [ok |-> TRUE, neg |-> FALSE, mag |-> Zero]
        ELSE IF body # <<>> /\ AllDigits(body)
             THEN LET m == ParseDigits(body, Zero)
                  IN  [ok |-> TRUE, neg |-> neg /\ m # Zero, mag |-> m]
             ELSE [ok |-> FALSE, neg |-> FALSE, mag |-> Zero]

\* quotient and remainder of a limb triple by 10
DivMod10(n) ==
    LET q1 == n[1] \div 10
        r1 == n[1] % 10
        t2 == r1 * Base + n[2]
        q2 == t2 \div 10
        r2 == t2 % 10
        t3 == r2 * Base + n[3]
    IN  [quot |-> <<q1, q2, t3 \div 10>>, rem |-> t3 % 10]

RECURSIVE DecimalDigits(_)
DecimalDigits(n) ==
    IF n = Zero THEN <<>>
    ELSE LET d == DivMod10(n) IN Append(DecimalDigits(d.quot), Digits[d.rem + 1])

\* `${bigint}`: an optional minus sign and the decimal digits
BigIntToString(b) ==
    IF b.mag = Zero THEN <<"0">>
    ELSE (IF b.neg THEN <<"-">> ELSE <<>>) \o DecimalDigits(b.mag)

\* BigInt(number) of a non-negative integer double
BigIntOfNumber(n) == [ok |-> TRUE, neg |-> FALSE, mag |-> n]

RECURSIVE BitLength(_)
BitLength(k) == IF k = 0 THEN 0 ELSE 1 + BitLength(k \div 2)

\* carry propagation after an addition into the low limb
Carry(n) ==
    LET mid == n[2] + (n[3] \div Base)
    IN  <<n[1] + (mid \div Base), mid % Base, n[3] % Base>>

\* Number(bigint) for 0 <= n <= 2^64: the nearest IEEE-754 double (53-bit
\* significand, ties to even), itself an integer, returned as limbs.
\* hi < 32 means n < 2^53, which every double holds exactly.
NumberOfBigInt(n) ==
    IF n[1] < 32 THEN n
    ELSE LET k    == BitLength(n[1]) - 5
             q    == Pow2(k)
             r    == n[3] % q
             half == q \div 2
             kept == n[3] - r
             up   == r > half \/ (r = half /\ (n[3] \div q) % 2 = 1)
         IN  Carry(<<n[1], n[2], IF up THEN kept + q ELSE kept>>)

\* the bounds of the EIP-712 type uint64: 0 <= n < 2^64
InUint64(b) == ~b.neg /\ b.mag[1] < 65536

HexDigits == <<"0", "1", "2", "3", "4", "5", "6", "7", "8", "9",
               "a", "b", "c", "d", "e", "f">>

IsHexDigit(ch) == \E i \in 1..16 : HexDigits[i] = LowerChar(ch)

HexVal(ch) == (CHOOSE i \in 1..16 : HexDigits[i] = LowerChar(ch)) - 1

\* the longest prefix of s made of digits of the radix
RECURSIVE DigitPrefix(_, _)
DigitPrefix(s, radix) ==
    IF s # <<>> /\ IsHexDigit(Head(s)) /\ HexVal(Head(s)) < radix
    THEN <<Head(s)>> \o DigitPrefix(Tail(s), radix)
    ELSE <<>>

RECURSIVE RadixValue(_, _, _)
RadixValue(s, radix, acc) ==
    IF s = <<>> THEN acc ELSE RadixValue(Tail(s), radix, acc * radix + HexVal(Head(s)))

\* parseInt(string) without a radix: white space is trimmed, a 0x or 0X
\* prefix selects radix 16, the longest digit prefix is read and NaN is the
\* result when it is empty. (No sign: the code passes '0x3e6' or '0x1'.)
parseInt(s) ==
    LET t    == TrimLeft(s)
        hex  == Len(t) >= 2 /\ t[1] = "0" /\ LowerChar(t[2]) = "x"
        body == IF hex THEN SubSeq(t, 3, Len(t)) ELSE t
        rad  == IF hex THEN 16 ELSE 10
        ds   == DigitPrefix(body, rad)
    IN  IF ds = <<>> THEN [nan |-> TRUE, val |-> 0]
        ELSE [nan |-> FALSE, val |-> RadixValue(ds, rad, 0)]

(***************************** environment **********************************)

KeyA == <<"k", "a">>

KeyB == <<"k", "b">>

ValidKeys == {KeyA, KeyB}

\* wallet.address: the checksummed (mixed-case) address of a key
AddressOf(key) ==
    IF key = KeyA THEN <<"0", "x", "A", "a">> ELSE <<"0", "x", "B", "b">>

\* the address check of the EIP-712 'address' type: lower-case or checksummed
IsAddress(s) == \E k \in ValidKeys : s = AddressOf(k) \/ s = toLowerCase(AddressOf(k))

Blank == <<" ">>

\* values of NONCE: unset, empty, blank, 0, 1000, a millisecond clock value,
\* 2^53 + 1, 2^64 - 1, 2^64, a negative number, not a number
NonceInputs ==
    { Undef, Str(<<>>), Str(Blank), Str(<<"0">>), Str(<<"1", "0", "0", "0">>),
      Str(<<"9", "0", "0", "7", "1", "9", "9", "2", "5", "4", "7", "4", "0", "9", "9", "3">>),
      Str(<<"1", "8", "4", "4", "6", "7", "4", "4", "0", "7", "3", "7", "0", "9", "5", "5",
            "1", "6", "1", "5">>),
      Str(<<"1", "8", "4", "4", "6", "7", "4", "4", "0", "7", "3", "7", "0", "9", "5", "5",
            "1", "6", "1", "6">>),
      Str(<<"-", "5">>), Str(<<"1", "z">>) }

True == <<"t", "r", "u", "e">>

False == <<"f", "a", "l", "s", "e">>

\* what getenvStrict rejects: an unset variable and one that trims to ''
Missing == {Undef, Str(Blank)}

LinkRequired ==
    {"TRADING_PRIVATE_KEY", "TRADING_USER_ADDRESS", "STAKING_PRIVATE_KEY", "STAKING_USER_ADDRESS"}

\* the values the operator may write for a variable of the link scripts: the
\* trading account is key A, the staking account is key B, and each names the
\* other's address
LinkValues(name) ==
    CASE name = "TRADING_PRIVATE_KEY" -> {Str(KeyA)} \cup Missing
      [] name = "STAKING_PRIVATE_KEY" -> {Str(KeyB)} \cup Missing
      [] name = "TRADING_USER_ADDRESS" ->
            {Str(AddressOf(KeyB)), Str(toLowerCase(AddressOf(KeyB)))} \cup Missing
      [] name = "STAKING_USER_ADDRESS" ->
            {Str(AddressOf(KeyA)), Str(toLowerCase(AddressOf(KeyA)))} \cup Missing
      [] name = "IS_FINALIZE" -> {Undef, Str(True)}
      [] name = "HYPERLIQUID_TESTNET" -> {Undef, Str(False)}
      [] name = "NONCE" -> NonceInputs

Defects(e, required) == Cardinality({n \in required : e[n] \in Missing})

\* the .env files of the link scripts
LinkEnvs ==
    { e \in { [ TRADING_PRIVATE_KEY |-> tk, TRADING_USER_ADDRESS |-> ta,
                STAKING_PRIVATE_KEY |-> sk, STAKING_USER_ADDRESS |-> sa,
                IS_FINALIZE |-> f, HYPERLIQUID_TESTNET |-> t, NONCE |-> n ] :
                tk \in LinkValues("TRADING_PRIVATE_KEY"),
                ta \in LinkValues("TRADING_USER_ADDRESS"),
                sk \in LinkValues("STAKING_PRIVATE_KEY"),
                sa \in LinkValues("STAKING_USER_ADDRESS"),
                f \in LinkValues("IS_FINALIZE"),
                t \in LinkValues("HYPERLIQUID_TESTNET"),
                n \in LinkValues("NONCE") } :
        Defects(e, LinkRequired) <= MaxDefects }

\* Date.now() at the first run: 1761995511314, the nonce of the README
Epoch == <<0, 105023, 1955346>>

\* function getenvStrict(name)
getenvStrict(e, name) ==
    LET v == e[name]
    IN  IF ~Truthy(v) \/ Trim(v.str) = <<>>
        THEN [ok |-> FALSE, str |-> <<>>]
        ELSE [ok |-> TRUE, str |-> v.str]

(***************************** libraries ************************************)

\* ethers: new Wallet(privateKey) throws on a string that is not a key
WalletThrows(key) == key \notin ValidKeys

\* ethers: signTypedData throws when a field does not fit its declared type
signTypedDataThrows(domain, value) ==
    \/ domain.chainId.nan
    \/ ~IsAddress(value.user)
    \/ ~InUint64(value.nonce)

\* ethers: the signature is a function of the key, the domain and the value
signTypedData(key, domain, value) ==
    [scheme |-> "eip712", key |-> key, domain |-> domain, value |-> value]

\* ethers: verifyTypedData recovers an address from the signature. ECDSA
\* recovery is outside the repository: any address may come back.
verifyTypedData == {AddressOf(k) : k \in ValidKeys}

\* axios.post(url, payload, {timeout: 30000}): the promise resolves on a 2xx
\* status whatever the body says, and rejects on any other status (with the
\* response attached) or when no response arrives in time (without one).
\* data is the verdict of the service in the body: "ok" or "err".
AxiosOutcomes ==
    { [settled |-> "resolved", status |-> 200, data |-> "ok"],
      [settled |-> "resolved", status |-> 200, data |-> "err"],
      [settled |-> "rejected", status |-> 422, data |-> "err"],
      [settled |-> "rejected", status |-> 0, data |-> "none"] }

(***************************** state ****************************************)

VARIABLES
    env,        \* process.env of the current run
    now,        \* the clock: Date.now()
    ticks,      \* milliseconds elapsed since Epoch
    runs,       \* runs started so far
    script,     \* the script of the current run
    pc,         \* where the current run stands
    wallet,     \* <<key>> once the wallet is constructed
    action,     \* <<LinkAction>> once built
    typed,      \* <<[domain, value]>> handed to signTypedData
    sig,        \* <<signature>> once produced
    checks,     \* the local recovery comparisons made, as [recovered, expected, equal]
    signed,     \* the signing operations performed
    net,        \* the network operations performed
    reported,   \* the "Nonce:" line of the console, <<text>> once printed
    response,   \* <<outcome>> of the HTTP submission
    error,      \* <<error>> once thrown
    stderr,     \* what main().catch printed
    exitCode,   \* -1 while running, then 0 or 1
    history     \* the finished runs

vars == <<env, now, ticks, runs, script, pc, wallet, action, typed, sig, checks,
          signed, net, reported, response, error, stderr, exitCode, history>>

locals == <<wallet, action, typed, sig, checks, signed, net, reported, response,
            error, stderr, exitCode>>

NoEnv == [NONCE |-> Undef]

Init ==
    /\ env = NoEnv
    /\ now = Epoch
    /\ ticks = 0
    /\ runs = 0
    /\ script = "none"
    /\ pc = "exited"
    /\ wallet = <<>>
    /\ action = <<>>
    /\ typed = <<>>
    /\ sig = <<>>
    /\ checks = <<>>
    /\ signed = <<>>
    /\ net = <<>>
    /\ reported = <<>>
    /\ response = <<>>
    /\ error = <<>>
    /\ stderr = <<>>
    /\ exitCode = -1
    /\ history = <<>>

\* a new process: nothing is carried over from the run before
Launch(s, e) ==
    /\ pc = "exited"
    /\ runs < MaxRuns
    /\ runs' = runs + 1
    /\ script' = s
    /\ env' = e
    /\ pc' = "main"
    /\ wallet' = <<>>
    /\ action' = <<>>
    /\ typed' = <<>>
    /\ sig' = <<>>
    /\ checks' = <<>>
    /\ signed' = <<>>
    /\ net' = <<>>
    /\ reported' = <<>>
    /\ response' = <<>>
    /\ error' = <<>>
    /\ stderr' = <<>>
    /\ exitCode' = -1
    /\ UNCHANGED <<now, ticks, history>>

\* what a finished run leaves behind for the operator
Summary(code, err, resp) ==
    [ script |-> script, env |-> env, clock |-> now, action |-> action,
      signed |-> signed, net |-> net, checks |-> checks, reported |-> reported,
      response |-> resp, stderr |-> err, exitCode |-> code ]

\* the promise of main() resolves: the process ends with exit code 0
Resolve(resp) ==
    /\ pc' = "exited"
    /\ exitCode' = 0
    /\ history' = Append(history, Summary(0, <<>>, resp))

\* a throw inside main(): the promise rejects with e
Throw(e) ==
    /\ pc' = "catch"
    /\ error' = <<e>>

Error(message) == [name |-> "Error", message |-> message, data |-> "none"]

\* main().catch((e) => { console.error('Error:', e?.response?.data ||
\* e?.message || e); process.exit(1); })
Catch(s) ==
    /\ script = s
    /\ pc = "catch"
    /\ LET e == error[1]
           printed == IF e.data # "none" THEN e.data ELSE e.message
       IN  /\ stderr' = <<printed>>
           /\ history' = Append(history, Summary(1, <<printed>>, response))
    /\ exitCode' = 1
    /\ pc' = "exited"
    /\ UNCHANGED <<env, now, ticks, runs, script, wallet, action, typed, sig, checks,
                   signed, net, reported, response, error>>

\* the AxiosError of a rejected post: response.data is set when a response came
AxiosError(o) ==
    [ name |-> "AxiosError",
      message |-> IF o.status = 0 THEN "timeout of 30000ms exceeded"
                  ELSE "Request failed with status code",
      data |-> o.data ]

\* a script that posted again after a rejected post
RejectedRetries(o) == pc' = "compare" /\ UNCHANGED error

\* a post that rejects inside main(): no script has a try around it and none
\* posts again, so the rejection of axios becomes the rejection of main()
Rejected(o) == Throw(AxiosError(o))

\* a millisecond passes between two runs
Tick ==
    /\ pc = "exited"
    /\ runs >= 1
    /\ ticks < MaxTicks
    /\ ticks' = ticks + 1
    /\ now' = Carry(<<now[1], now[2], now[3] + 1>>)
    /\ UNCHANGED <<env, runs, script, pc, locals, history>>

(***************************** src/index.ts *********************************)

\* main, line 165: every value but 'false' selects the test network
Testnet(e) == e.HYPERLIQUID_TESTNET # Str(False)

\* signAndSubmitLink, lines 127-135: the action of a role and a nonce
LinkAction(userAddress, isFinalize, testnet, finalNonce) ==
    [ hyperliquidChain |-> IF testnet THEN "Testnet" ELSE "Mainnet",
      isFinalize |-> isFinalize,
      nonce |-> finalNonce,
      signatureChainId |-> IF testnet THEN <<"0", "x", "3", "e", "6">> ELSE <<"0", "x", "1">>,
      type |-> "linkStakingUser",
      user |-> userAddress ]

\* signLinkAction, lines 40-48
LinkDomain(a) ==
    [ name |-> "HyperliquidSignTransaction", version |-> "1",
      chainId |-> parseInt(a.signatureChainId),
      verifyingContract |-> "0x0000000000000000000000000000000000000000" ]

\* signLinkAction, lines 59-64
LinkValue(a) ==
    [ hyperliquidChain |-> a.hyperliquidChain, user |-> toLowerCase(a.user),
      isFinalize |-> a.isFinalize, nonce |-> a.nonce ]

\* signAndSubmitLink, line 120: nonce || BigInt(Date.now()); undefined and 0n
\* are the falsy values
FinalNonce(nonce, clock) ==
    IF nonce # <<>> /\ nonce[1].mag # Zero THEN nonce[1] ELSE BigIntOfNumber(clock)

\* signAndSubmitLink, lines 140-154
LinkPayload(a, finalNonce, s) ==
    [ action |-> [ hyperliquidChain |-> a.hyperliquidChain, isFinalize |-> a.isFinalize,
                   nonce |-> NumberOfBigInt(a.nonce.mag),
                   signatureChainId |-> a.signatureChainId, type |-> a.type,
                   user |-> a.user ],
      expiresAfter |-> "null", isFrontend |-> TRUE,
      nonce |-> NumberOfBigInt(finalNonce.mag),
      signature |-> s, vaultAddress |-> "null" ]

\* one base URL for both networks
LinkUrlOneNetwork(testnet) == "https://api-ui.hyperliquid-testnet.xyz/exchange"

\* submitLinkAction, lines 85-89
LinkUrl(testnet) ==
    IF testnet THEN "https://api-ui.hyperliquid-testnet.xyz/exchange"
    ELSE "https://api-ui.hyperliquid.xyz/exchange"

\* main and signAndSubmitLink up to the first await (wallet.signTypedData)
LinkMain ==
    /\ script = "link"
    /\ pc = "main"
    /\ LET isFinalize == env.IS_FINALIZE = Str(True)
           testnet    == Testnet(env)
           nonceArg   == env.NONCE
           parsed     == BigIntOfString(nonceArg.str)
           nonce      == IF Truthy(nonceArg) THEN <<parsed>> ELSE <<>>
           key        == getenvStrict(env, IF isFinalize THEN "STAKING_PRIVATE_KEY"
                                           ELSE "TRADING_PRIVATE_KEY")
           addr       == getenvStrict(env, IF isFinalize THEN "STAKING_USER_ADDRESS"
                                           ELSE "TRADING_USER_ADDRESS")
           finalNonce == FinalNonce(nonce, now)
           a          == LinkAction(toLowerCase(addr.str), isFinalize, testnet, finalNonce)
       IN  IF Truthy(nonceArg) /\ ~parsed.ok
           THEN Throw([name |-> "SyntaxError", message |-> "Cannot convert to a BigInt",
                       data |-> "none"])
                /\ UNCHANGED <<wallet, action, typed, reported>>
           ELSE IF ~key.ok \/ ~addr.ok
           THEN Throw(Error("Missing required env var"))
                /\ UNCHANGED <<wallet, action, typed, reported>>
           ELSE IF WalletThrows(key.str)
           THEN Throw(Error("invalid private key"))
                /\ UNCHANGED <<wallet, action, typed, reported>>
           ELSE /\ wallet' = <<key.str>>
                /\ reported' = <<BigIntToString(finalNonce)>>
                /\ action' = <<a>>
                /\ typed' = <<[domain |-> LinkDomain(a), value |-> LinkValue(a)]>>
                /\ pc' = "signTypedData"
                /\ UNCHANGED error
    /\ UNCHANGED <<env, now, ticks, runs, script, sig, checks, signed, net, response,
                   stderr, exitCode, history>>

\* signLinkAction, lines 66-71: sign, recover, await wallet.getAddress()
LinkSign ==
    /\ script = "link"
    /\ pc = "signTypedData"
    /\ LET d == typed[1].domain
           v == typed[1].value
       IN  IF signTypedDataThrows(d, v)
           THEN Throw(Error("invalid value for type"))
                /\ UNCHANGED <<sig, signed, checks>>
           ELSE \E recovered \in verifyTypedData :
                /\ sig' = <<signTypedData(wallet[1], d, v)>>
                /\ signed' = Append(signed, signTypedData(wallet[1], d, v))
                /\ checks' = Append(checks, [recovered |-> recovered,
                                             expected |-> AddressOf(wallet[1]),
                                             equal |-> FALSE])
                /\ pc' = "compare"
                /\ UNCHANGED error
    /\ UNCHANGED <<env, now, ticks, runs, script, wallet, action, typed, net, reported,
                   response, stderr, exitCode, history>>

\* a comparison of the expected address with itself
RecoveryComparesExpected(recovered, expected) ==
    toLowerCase(expected) = toLowerCase(expected)

\* signLinkAction, line 72: the comparison of the two lower-cased addresses
RecoveryMatches(recovered, expected) == toLowerCase(recovered) = toLowerCase(expected)

\* signLinkAction, lines 72-78, then signAndSubmitLink, lines 138-157: the
\* payload is built and posted
LinkCompare ==
    /\ script = "link"
    /\ pc = "compare"
    /\ LET c  == checks[Len(checks)]
           ok == RecoveryMatches(c.recovered, c.expected)
           testnet == Testnet(env)
       IN  /\ checks' = [checks EXCEPT ![Len(checks)].equal = ok]
           /\ IF ~ok
              THEN Throw(Error("Local EIP-712 recovery mismatch")) /\ UNCHANGED net
              ELSE /\ net' = Append(net, [ kind |-> "post", url |-> LinkUrl(testnet),
                                           body |-> LinkPayload(action[1], action[1].nonce, sig[1]) ])
                   /\ pc' = "post"
                   /\ UNCHANGED error
    /\ UNCHANGED <<env, now, ticks, runs, script, wallet, action, typed, sig, signed,
                   reported, response, stderr, exitCode, history>>

\* signAndSubmitLink, lines 157-159: the post settles
LinkResponse ==
    /\ script = "link"
    /\ pc = "post"
    /\ \E o \in AxiosOutcomes :
          /\ response' = <<o>>
          /\ IF o.settled = "resolved"
             THEN Resolve(<<o>>) /\ UNCHANGED <<error, stderr>>
             ELSE Rejected(o) /\ UNCHANGED <<exitCode, history, stderr>>
    /\ UNCHANGED <<env, now, ticks, runs, script, wallet, action, typed, sig, checks,
                   signed, net, reported>>

LinkCatch == Catch("link")

(***************************** src/unnamed/part_001 *************************)

\* main, line 102
StakingTestnet(e) == e.HYPERLIQUID_TESTNET # Str(False)

\* main, line 106: nonceArg ? BigInt(nonceArg) : BigInt(Date.now())
StakingFinalNonce(nonceArg, clock) ==
    IF Truthy(nonceArg) THEN BigIntOfString(nonceArg.str) ELSE BigIntOfNumber(clock)

\* main, lines 112-120
StakingAction(tradingAddress, testnet, finalNonce) ==
    [ hyperliquidChain |-> IF testnet THEN "Testnet" ELSE "Mainnet",
      isFinalize |-> TRUE,
      nonce |-> finalNonce,
      signatureChainId |-> IF testnet THEN <<"0", "x", "3", "e", "6">> ELSE <<"0", "x", "1">>,
      type |-> "linkStakingUser",
      user |-> tradingAddress ]

\* signLinkAction, lines 26-33
StakingDomain(a) ==
    [ name |-> "HyperliquidSignTransaction", version |-> "1",
      chainId |-> parseInt(a.signatureChainId),
      verifyingContract |-> "0x0000000000000000000000000000000000000000" ]

\* signLinkAction, lines 44-49
StakingValue(a) ==
    [ hyperliquidChain |-> a.hyperliquidChain, user |-> toLowerCase(a.user),
      isFinalize |-> a.isFinalize, nonce |-> a.nonce ]

\* main, lines 125-139
StakingPayload(a, finalNonce, s) ==
    [ action |-> [ hyperliquidChain |-> a.hyperliquidChain, isFinalize |-> a.isFinalize,
                   nonce |-> NumberOfBigInt(a.nonce.mag),
                   signatureChainId |-> a.signatureChainId, type |-> a.type,
                   user |-> a.user ],
      expiresAfter |-> "null", isFrontend |-> TRUE,
      nonce |-> NumberOfBigInt(finalNonce.mag),
      signature |-> s, vaultAddress |-> "null" ]

\* submitLinkAction, lines 69-73
StakingUrl(testnet) ==
    IF testnet THEN "https://api-ui.hyperliquid-testnet.xyz/exchange"
    ELSE "https://api-ui.hyperliquid.xyz/exchange"

\* main up to the first await (wallet.signTypedData in signLinkAction)
StakingMain ==
    /\ script = "staking"
    /\ pc = "main"
    /\ LET key        == getenvStrict(env, "STAKING_PRIVATE_KEY")
           addr       == getenvStrict(env, "STAKING_USER_ADDRESS")
           testnet    == StakingTestnet(env)
           nonceArg   == env.NONCE
           finalNonce == StakingFinalNonce(nonceArg, now)
           a          == StakingAction(toLowerCase(addr.str), testnet, finalNonce)
       IN  IF ~key.ok \/ ~addr.ok
           THEN Throw(Error("Missing required env var"))
                /\ UNCHANGED <<wallet, action, typed, reported>>
           ELSE IF WalletThrows(key.str)
           THEN Throw(Error("invalid private key"))
                /\ UNCHANGED <<wallet, action, typed, reported>>
           ELSE IF ~finalNonce.ok
           THEN Throw([name |-> "SyntaxError", message |-> "Cannot convert to a BigInt",
                       data |-> "none"])
                /\ UNCHANGED <<wallet, action, typed, reported>>
           ELSE /\ wallet' = <<key.str>>
                /\ reported' = <<BigIntToString(finalNonce)>>
                /\ action' = <<a>>
                /\ typed' = <<[domain |-> StakingDomain(a), value |-> StakingValue(a)]>>
                /\ pc' = "signTypedData"
                /\ UNCHANGED error
    /\ UNCHANGED <<env, now, ticks, runs, script, sig, checks, signed, net, response,
                   stderr, exitCode, history>>

\* signLinkAction, lines 51-55: sign, recover, await wallet.getAddress()
StakingSign ==
    /\ script = "staking"
    /\ pc = "signTypedData"
    /\ LET d == typed[1].domain
           v == typed[1].value
       IN  IF signTypedDataThrows(d, v)
           THEN Throw(Error("invalid value for type"))
                /\ UNCHANGED <<sig, signed, checks>>
           ELSE \E recovered \in verifyTypedData :
                /\ sig' = <<signTypedData(wallet[1], d, v)>>
                /\ signed' = Append(signed, signTypedData(wallet[1], d, v))
                /\ checks' = Append(checks, [recovered |-> recovered,
                                             expected |-> AddressOf(wallet[1]),
                                             equal |-> FALSE])
                /\ pc' = "compare"
                /\ UNCHANGED error
    /\ UNCHANGED <<env, now, ticks, runs, script, wallet, action, typed, net, reported,
                   response, stderr, exitCode, history>>

\* signLinkAction, line 56
StakingRecoveryMatches(recovered, expected) ==
    toLowerCase(recovered) = toLowerCase(expected)

\* signLinkAction, lines 56-62, then main, lines 123-142
StakingCompare ==
    /\ script = "staking"
    /\ pc = "compare"
    /\ LET c  == checks[Len(checks)]
           ok == StakingRecoveryMatches(c.recovered, c.expected)
           testnet == StakingTestnet(env)
       IN  /\ checks' = [checks EXCEPT ![Len(checks)].equal = ok]
           /\ IF ~ok
              THEN Throw(Error("Local EIP-712 recovery mismatch")) /\ UNCHANGED net
              ELSE /\ net' = Append(net, [ kind |-> "post", url |-> StakingUrl(testnet),
                                           body |-> StakingPayload(action[1], action[1].nonce, sig[1]) ])
                   /\ pc' = "post"
                   /\ UNCHANGED error
    /\ UNCHANGED <<env, now, ticks, runs, script, wallet, action, typed, sig, signed,
                   reported, response, stderr, exitCode, history>>

\* main, lines 142-144: the post settles
StakingResponse ==
    /\ script = "staking"
    /\ pc = "post"
    /\ \E o \in AxiosOutcomes :
          /\ response' = <<o>>
          /\ IF o.settled = "resolved"
             THEN Resolve(<<o>>) /\ UNCHANGED <<error, stderr>>
             ELSE Rejected(o) /\ UNCHANGED <<exitCode, history, stderr>>
    /\ UNCHANGED <<env, now, ticks, runs, script, wallet, action, typed, sig, checks,
                   signed, net, reported>>

StakingCatch == Catch("staking")

(***************************** src/scripts/sign_message_and_call_api.ts *****)

RpcUrl == <<"r", "p", "c">>

ApiUrl == <<"a", "p", "i">>

\* JSON texts, as sequences of lexemes
TypedDataJson == <<"{", "domain", "types", "message", "}">>

NoTypesJson == <<"{", "domain", "message", "}">>

EmptyObjectJson == <<"{", "}">>

BrokenJson == <<"{">>

\* JSON.parse of an object of depth one: braces around member names; a
\* SyntaxError otherwise
JSONParse(text) ==
    IF /\ Len(text) >= 2
       /\ text[1] = "{"
       /\ text[Len(text)] = "}"
       /\ \A i \in 2..(Len(text) - 1) : text[i] \notin {"{", "}"}
    THEN [ok |-> TRUE, members |-> {text[i] : i \in 2..(Len(text) - 1)}]
    ELSE [ok |-> FALSE, members |-> {}]

SignEnvs ==
    { e \in { [ ETH_RPC_URL |-> r, PRIVATE_KEY |-> k, TARGET_API_URL |-> a,
                SIGN_MODE |-> m, MESSAGE |-> msg, TYPED_DATA_JSON |-> t,
                API_PAYLOAD_JSON |-> p, NONCE |-> Undef ] :
                r \in {Str(RpcUrl)} \cup Missing,
                k \in {Str(KeyA)} \cup Missing,
                a \in {Str(ApiUrl)} \cup Missing,
                m \in {Undef, Str(<<"p", "e", "r", "s", "o", "n", "a", "l">>),
                       Str(<<"T", "y", "p", "e", "d">>), Str(<<"f", "o", "o">>)},
                msg \in {Undef, Str(<<"h", "i">>)},
                t \in {Undef, Str(TypedDataJson), Str(NoTypesJson), Str(BrokenJson)},
                p \in {Undef, Str(EmptyObjectJson), Str(BrokenJson)} } :
        Defects(e, {"ETH_RPC_URL", "PRIVATE_KEY", "TARGET_API_URL"}) <= MaxDefects }

\* a JSON-RPC request either gets its result or fails
RpcOutcomes == {"ok", "failed"}

\* ethers: the personal-message signature of a key and a message
signMessage(key, message) ==
    [scheme |-> "personal", key |-> key, domain |-> "none", value |-> message]

\* ethers: signTypedData(domain, types, message) of a parsed document throws
\* when the types or the message are missing
signTypedThrows(parsed) == ~({"types", "message"} \subseteq parsed.members)

\* main, lines 41-47: the required variables, then provider.getBlockNumber()
SignMain ==
    /\ script = "sign"
    /\ pc = "main"
    /\ LET rpcUrl     == getenvStrict(env, "ETH_RPC_URL")
           privateKey == getenvStrict(env, "PRIVATE_KEY")
           apiUrl     == getenvStrict(env, "TARGET_API_URL")
       IN  IF ~rpcUrl.ok \/ ~privateKey.ok \/ ~apiUrl.ok
           THEN Throw(Error("Missing required env var")) /\ UNCHANGED net
           ELSE /\ net' = Append(net, [kind |-> "rpc", url |-> rpcUrl.str,
                                       body |-> "eth_blockNumber"])
                /\ pc' = "getBlockNumber"
                /\ UNCHANGED error
    /\ UNCHANGED <<env, now, ticks, runs, script, wallet, action, typed, sig, checks,
                   signed, reported, response, stderr, exitCode, history>>

\* main, lines 47-65: the block number arrives, the wallet is built and the
\* mode selects what is signed
SignSelect ==
    /\ script = "sign"
    /\ pc = "getBlockNumber"
    /\ \E o \in RpcOutcomes :
        LET privateKey == getenvStrict(env, "PRIVATE_KEY")
            mode == toLowerCase(IF Truthy(env.SIGN_MODE) THEN env.SIGN_MODE.str
                                ELSE <<"p", "e", "r", "s", "o", "n", "a", "l">>)
            message == IF Truthy(env.MESSAGE) THEN env.MESSAGE.str
                       ELSE <<"H", "e", "l", "l", "o">>
            raw == getenvStrict(env, "TYPED_DATA_JSON")
            parsed == JSONParse(raw.str)
        IN  IF o = "failed"
            THEN Throw(Error("could not detect network")) /\ UNCHANGED <<wallet, typed>>
            ELSE IF WalletThrows(privateKey.str)
            THEN Throw(Error("invalid private key")) /\ UNCHANGED <<wallet, typed>>
            ELSE IF mode = <<"p", "e", "r", "s", "o", "n", "a", "l">>
            THEN /\ wallet' = <<privateKey.str>>
                 /\ typed' = <<[domain |-> "personal", value |-> message]>>
                 /\ pc' = "signMessage"
                 /\ UNCHANGED error
            ELSE IF mode = <<"t", "y", "p", "e", "d">>
            THEN IF ~raw.ok
                 THEN Throw(Error("Missing required env var")) /\ UNCHANGED <<wallet, typed>>
                 ELSE IF ~parsed.ok
                 THEN Throw([name |-> "SyntaxError", message |-> "Unexpected end of JSON input",
                             data |-> "none"])
                      /\ UNCHANGED <<wallet, typed>>
                 ELSE /\ wallet' = <<privateKey.str>>
                      /\ typed' = <<[domain |-> "typed", value |-> parsed]>>
                      /\ pc' = "signTypedData"
                      /\ UNCHANGED error
            ELSE Throw(Error("SIGN_MODE must be 'personal' or 'typed'"))
                 /\ UNCHANGED <<wallet, typed>>
    /\ UNCHANGED <<env, now, ticks, runs, script, action, sig, checks, signed, net,
                   reported, response, stderr, exitCode, history>>

\* signPersonal, lines 12-15
signPersonal ==
    /\ script = "sign"
    /\ pc = "signMessage"
    /\ sig' = <<signMessage(wallet[1], typed[1].value)>>
    /\ signed' = Append(signed, signMessage(wallet[1], typed[1].value))
    /\ pc' = "signedMessage"
    /\ UNCHANGED <<env, now, ticks, runs, script, wallet, action, typed, checks, net,
                   reported, response, error, stderr, exitCode, history>>

\* signTyped, lines 17-24
signTyped ==
    /\ script = "sign"
    /\ pc = "signTypedData"
    /\ IF signTypedThrows(typed[1].value)
       THEN Throw(Error("invalid typed data")) /\ UNCHANGED <<sig, signed>>
       ELSE /\ sig' = <<signTypedData(wallet[1], "document", typed[1].value)>>
            /\ signed' = Append(signed, signTypedData(wallet[1], "document", typed[1].value))
            /\ pc' = "signedMessage"
            /\ UNCHANGED error
    /\ UNCHANGED <<env, now, ticks, runs, script, wallet, action, typed, checks, net,
                   reported, response, stderr, exitCode, history>>

\* callApi, lines 32-37: the request of the generic API call
ApiRequest(url, signature, address, payload) ==
    [ kind |-> "post", url |-> url,
      body |-> [ headers |-> [address |-> address, signature |-> signature],
                 payload |-> payload ] ]

\* main, lines 67-72: the payload is parsed and the API is called
SignCallApi ==
    /\ script = "sign"
    /\ pc = "signedMessage"
    /\ LET payloadRaw == IF Truthy(env.API_PAYLOAD_JSON) THEN env.API_PAYLOAD_JSON.str
                         ELSE EmptyObjectJson
           payload == JSONParse(payloadRaw)
           apiUrl == getenvStrict(env, "TARGET_API_URL")
       IN  IF ~payload.ok
           THEN Throw([name |-> "SyntaxError", message |-> "Unexpected end of JSON input",
                       data |-> "none"])
                /\ UNCHANGED net
           ELSE /\ net' = Append(net, ApiRequest(apiUrl.str, sig[1], AddressOf(wallet[1]),
                                                 payload.members))
                /\ pc' = "post"
                /\ UNCHANGED error
    /\ UNCHANGED <<env, now, ticks, runs, script, wallet, action, typed, sig, checks,
                   signed, reported, response, stderr, exitCode, history>>

\* main, lines 72-74: the post settles
SignResponse ==
    /\ script = "sign"
    /\ pc = "post"
    /\ \E o \in AxiosOutcomes :
          /\ response' = <<o>>
          /\ IF o.settled = "resolved"
             THEN Resolve(<<o>>) /\ UNCHANGED <<error, stderr>>
             ELSE Rejected(o) /\ UNCHANGED <<exitCode, history, stderr>>
    /\ UNCHANGED <<env, now, ticks, runs, script, wallet, action, typed, sig, checks,
                   signed, net, reported>>

SignCatch == Catch("sign")

(***************************** sign_and_send_tx (lines 83-151) **************)

\* ethers parseUnits / parseEther: digits with at most one decimal point
IsDecimal(s) ==
    /\ \E i \in 1..Len(s) : IsDigit(s[i])
    /\ \A i \in 1..Len(s) : IsDigit(s[i]) \/ s[i] = "."
    /\ Cardinality({i \in 1..Len(s) : s[i] = "."}) <= 1

TxRequired == {"ETH_RPC_URL", "CHAIN_ID", "PRIVATE_KEY", "TO_ADDRESS", "AMOUNT_ETH"}

TxEnvs ==
    { e \in { [ ETH_RPC_URL |-> r, CHAIN_ID |-> c, PRIVATE_KEY |-> k, TO_ADDRESS |-> t,
                AMOUNT_ETH |-> a, MAX_PRIORITY_FEE_GWEI |-> mp, MAX_FEE_GWEI |-> Undef,
                WAIT_FOR_RECEIPT |-> w, NONCE |-> Undef ] :
                r \in {Str(RpcUrl)} \cup Missing,
                c \in {Str(<<"1">>), Str(<<"1", "z">>)} \cup Missing,
                k \in {Str(KeyA)} \cup Missing,
                t \in {Str(AddressOf(KeyB))} \cup Missing,
                a \in {Str(<<"0", ".", "1">>), Str(<<"z">>)} \cup Missing,
                mp \in {Undef, Str(<<"z">>)},
                w \in {Undef, Str(<<"T", "r", "u", "e">>), Str(<<"n", "o">>)} } :
        Defects(e, TxRequired) <= MaxDefects }

\* process.env.X ?? fallback
OrElse(v, fallback) == IF v.def THEN v.str ELSE fallback

\* main, lines 98-106: the required variables, then provider.getBlockNumber()
TxMain ==
    /\ script = "tx"
    /\ pc = "main"
    /\ LET rpcUrl     == getenvStrict(env, "ETH_RPC_URL")
           chainIdStr == getenvStrict(env, "CHAIN_ID")
           chainId    == BigIntOfString(chainIdStr.str)
           privateKey == getenvStrict(env, "PRIVATE_KEY")
           to         == getenvStrict(env, "TO_ADDRESS")
           amountEth  == getenvStrict(env, "AMOUNT_ETH")
       IN  IF ~rpcUrl.ok \/ ~chainIdStr.ok
           THEN Throw(Error("Missing required env var")) /\ UNCHANGED net
           ELSE IF ~chainId.ok
           THEN Throw([name |-> "SyntaxError", message |-> "Cannot convert to a BigInt",
                       data |-> "none"])
                /\ UNCHANGED net
           ELSE IF ~privateKey.ok \/ ~to.ok \/ ~amountEth.ok
           THEN Throw(Error("Missing required env var")) /\ UNCHANGED net
           ELSE /\ net' = Append(net, [kind |-> "rpc", url |-> rpcUrl.str,
                                       body |-> "eth_blockNumber"])
                /\ pc' = "getBlockNumber"
                /\ UNCHANGED error
    /\ UNCHANGED <<env, now, ticks, runs, script, wallet, action, typed, sig, checks,
                   signed, reported, response, stderr, exitCode, history>>

\* main, lines 106-130: the wallet, the fees and the amount, then estimateGas
TxPrepare ==
    /\ script = "tx"
    /\ pc = "getBlockNumber"
    /\ \E o \in RpcOutcomes :
        LET privateKey == getenvStrict(env, "PRIVATE_KEY")
            rpcUrl     == getenvStrict(env, "ETH_RPC_URL")
            fee        == OrElse(env.MAX_PRIORITY_FEE_GWEI, <<"2">>)
            maxFee     == OrElse(env.MAX_FEE_GWEI, <<"6", "0">>)
            amountEth  == getenvStrict(env, "AMOUNT_ETH")
        IN  IF o = "failed"
            THEN Throw(Error("could not detect network")) /\ UNCHANGED <<wallet, typed, net>>
            ELSE IF WalletThrows(privateKey.str)
            THEN Throw(Error("invalid private key")) /\ UNCHANGED <<wallet, typed, net>>
            ELSE IF ~IsDecimal(fee) \/ ~IsDecimal(maxFee) \/ ~IsDecimal(amountEth.str)
            THEN Throw(Error("invalid FixedNumber string value"))
                 /\ UNCHANGED <<wallet, typed, net>>
            ELSE /\ wallet' = <<privateKey.str>>
                 /\ typed' = <<[domain |-> "transaction",
                               value |-> [to |-> env.TO_ADDRESS.str, value |-> amountEth.str]]>>
                 /\ net' = Append(net, [kind |-> "rpc", url |-> rpcUrl.str,
                                        body |-> "eth_estimateGas"])
                 /\ pc' = "estimateGas"
                 /\ UNCHANGED error
    /\ UNCHANGED <<env, now, ticks, runs, script, action, sig, checks, signed, reported,
                   response, stderr, exitCode, history>>

\* ethers: the signature of a transaction by a key
signTransaction(key, tx) ==
    [scheme |-> "transaction", key |-> key, domain |-> "none", value |-> tx]

\* main, lines 124-137: the estimate arrives; wallet.sendTransaction signs
\* the transaction and broadcasts it
TxSend ==
    /\ script = "tx"
    /\ pc = "estimateGas"
    /\ \E o \in RpcOutcomes :
        IF o = "failed"
        THEN Throw(Error("Gas estimation failed")) /\ UNCHANGED <<sig, signed, net>>
        ELSE /\ sig' = <<signTransaction(wallet[1], typed[1].value)>>
             /\ signed' = Append(signed, signTransaction(wallet[1], typed[1].value))
             /\ net' = Append(net, [kind |-> "post", url |-> env.ETH_RPC_URL.str,
                                    body |-> signTransaction(wallet[1], typed[1].value)])
             /\ pc' = "sendTransaction"
             /\ UNCHANGED error
    /\ UNCHANGED <<env, now, ticks, runs, script, wallet, action, typed, checks, reported,
                   response, stderr, exitCode, history>>

\* main, line 141: ['1', 'true', 'yes'].includes(wait)
WaitForReceipt ==
    toLowerCase(OrElse(env.WAIT_FOR_RECEIPT, <<"t", "r", "u", "e">>))
        \in {<<"1">>, <<"t", "r", "u", "e">>, <<"y", "e", "s">>}

\* main, lines 137-143: the broadcast settles; the receipt is awaited if asked
TxSent ==
    /\ script = "tx"
    /\ pc = "sendTransaction"
    /\ \E o \in RpcOutcomes :
        /\ response' = <<[settled |-> IF o = "failed" THEN "rejected" ELSE "resolved",
                           status |-> 0, data |-> "none"]>>
        /\ IF o = "failed"
           THEN Throw(Error("transaction rejected")) /\ UNCHANGED <<net, exitCode, history>>
           ELSE IF WaitForReceipt
           THEN /\ net' = Append(net, [kind |-> "rpc", url |-> env.ETH_RPC_URL.str,
                                       body |-> "eth_getTransactionReceipt"])
                /\ pc' = "wait"
                /\ UNCHANGED <<error, exitCode, history>>
           ELSE Resolve(response') /\ UNCHANGED <<net, error>>
    /\ UNCHANGED <<env, now, ticks, runs, script, wallet, action, typed, sig, checks,
                   signed, reported, stderr>>

\* main, lines 142-144: tx.wait() settles
TxReceipt ==
    /\ script = "tx"
    /\ pc = "wait"
    /\ \E o \in RpcOutcomes :
        IF o = "failed"
        THEN Throw(Error("transaction failed")) /\ UNCHANGED <<exitCode, history>>
        ELSE Resolve(response) /\ UNCHANGED error
    /\ UNCHANGED <<env, now, ticks, runs, script, wallet, action, typed, sig, checks,
                   signed, net, reported, response, stderr>>

\* main().catch((e) => { console.error('Error:', e?.message || e);
\* process.exit(1); })
TxCatch ==
    /\ script = "tx"
    /\ pc = "catch"
    /\ stderr' = <<error[1].message>>
    /\ history' = Append(history, Summary(1, <<error[1].message>>, response))
    /\ exitCode' = 1
    /\ pc' = "exited"
    /\ UNCHANGED <<env, now, ticks, runs, script, wallet, action, typed, sig, checks,
                   signed, net, reported, response, error>>

(***************************** the operator *********************************)

\* the operator starts the first run from a configuration
Start(s) ==
    /\ runs = 0
    /\ \/ /\ s = "link"
          /\ \E e \in LinkEnvs : Launch(s, e)
       \/ /\ s = "staking"
          /\ \E e \in LinkEnvs :
                /\ e.IS_FINALIZE = Undef
                /\ e.TRADING_PRIVATE_KEY = Str(KeyA)
                /\ e.TRADING_USER_ADDRESS = Str(AddressOf(KeyB))
                /\ Launch(s, e)
       \/ /\ s = "sign"
          /\ \E e \in SignEnvs : Launch(s, e)
       \/ /\ s = "tx"
          /\ \E e \in TxEnvs : Launch(s, e)

Last == history[Len(history)]

IsInitiatorRun(h) == h.script = "link" /\ h.env.IS_FINALIZE # Str(True)

IsFinalizerRun(h) ==
    \/ h.script = "staking"
    \/ h.script = "link" /\ h.env.IS_FINALIZE = Str(True)

\* README, step 2: after the trading account's run the operator copies the
\* nonce from its output into NONCE and runs the staking account's script,
\* either `npm run link:staking` or the combined script with IS_FINALIZE=true
Handoff(s) ==
    /\ runs >= 1
    /\ pc = "exited"
    /\ IsInitiatorRun(Last)
    /\ Last.exitCode = 0
    /\ Launch(s, [env EXCEPT !.NONCE = Str(Last.reported[1]),
                             !.IS_FINALIZE = IF s = "link" THEN Str(True) ELSE Undef])

\* the operator repeats a finalizer run with the other finalizer script and
\* the same configuration, once
Rerun ==
    /\ runs >= 1
    /\ pc = "exited"
    /\ IsFinalizerRun(Last)
    /\ \A i \in 1..Len(history) : IsFinalizerRun(history[i]) => history[i].script = Last.script
    /\ IF Last.script = "link"
       THEN Launch("staking", env)
       ELSE Launch("link", [env EXCEPT !.IS_FINALIZE = Str(True)])

Scripts == {"link", "staking", "sign", "tx"}

Next ==
    \/ \E s \in Scripts : Start(s)
    \/ Tick
    \/ LinkMain
    \/ LinkSign
    \/ LinkCompare
    \/ LinkResponse
    \/ LinkCatch
    \/ StakingMain
    \/ StakingSign
    \/ StakingCompare
    \/ StakingResponse
    \/ StakingCatch
    \/ SignMain
    \/ SignSelect
    \/ signPersonal
    \/ signTyped
    \/ SignCallApi
    \/ SignResponse
    \/ SignCatch
    \/ TxMain
    \/ TxPrepare
    \/ TxSend
    \/ TxSent
    \/ TxReceipt
    \/ TxCatch
    \/ \E s \in {"link", "staking"} : Handoff(s)
    \/ Rerun

Spec == Init /\ [][Next]_vars

(***************************** claims ***************************************)

IsPost(x) == x.kind = "post"

Posts == SelectSeq(net, IsPost)

IsLinkRun == script \in {"link", "staking"}

IsFinalizer == script = "staking" \/ (script = "link" /\ env.IS_FINALIZE = Str(True))

\* C1: a Finalizer run with no externally supplied NONCE fails and neither
\* signs nor submits a LinkAction (whose nonce it would have had to generate)
C1_FinalizerNeverFabricates ==
    (IsLinkRun /\ IsFinalizer /\ ~Truthy(env.NONCE)) =>
        /\ signed = <<>>
        /\ Posts = <<>>
        /\ (pc = "exited" => exitCode = 1)

\* C2: in every script that signs a link action, a personal message or typed
\* data, a signature is posted only after the address recovered from it was
\* compared with the wallet's address and found equal
C2_RecoveryBeforeSubmission ==
    (script \in {"link", "staking", "sign"} /\ Posts # <<>>) =>
        /\ checks # <<>>
        /\ checks[Len(checks)].equal

\* NONCE holds a decimal number of the 64-bit unsigned range
NonceSupplied(e) ==
    /\ Truthy(e.NONCE)
    /\ AllDigits(e.NONCE.str)
    /\ InUint64(BigIntOfString(e.NONCE.str))

\* C3: a supplied nonce of the 64-bit unsigned range, 0 included, is the
\* nonce of the LinkAction that is signed and of the payload that is posted
C3_SuppliedNonceIsUsed ==
    (IsLinkRun /\ NonceSupplied(env)) =>
        LET n == BigIntOfString(env.NONCE.str).mag
        IN  /\ \A i \in 1..Len(signed) : signed[i].value.nonce.mag = n
            /\ \A i \in 1..Len(Posts) :
                  Posts[i].body.nonce = n /\ Posts[i].body.action.nonce = n

Payload(h) == SelectSeq(h.net, IsPost)[1].body

HasPosted(h) == SelectSeq(h.net, IsPost) # <<>>

\* run j is the Finalizer run of the handshake that run i started
Handshake(i, j) ==
    /\ j = i + 1
    /\ IsInitiatorRun(history[i])
    /\ history[i].exitCode = 0
    /\ IsFinalizerRun(history[j])
    /\ history[i].reported # <<>>
    /\ history[j].env.NONCE = Str(history[i].reported[1])
    /\ HasPosted(history[i])
    /\ HasPosted(history[j])

\* C4: in a handshake the two payloads name each other's configured address,
\* the Initiator's has isFinalize = false and the Finalizer's true, both carry
\* one nonce, and that nonce is the one the Initiator reported and signed
C4_Handshake ==
    \A i \in 1..Len(history), j \in 1..Len(history) :
        Handshake(i, j) =>
            LET a == history[i]
                b == history[j]
                p == Payload(a)
                q == Payload(b)
            IN  /\ ~p.action.isFinalize
                /\ toLowerCase(p.action.user) = toLowerCase(a.env.TRADING_USER_ADDRESS.str)
                /\ q.action.isFinalize
                /\ toLowerCase(q.action.user) = toLowerCase(b.env.STAKING_USER_ADDRESS.str)
                /\ p.nonce = q.nonce
                /\ p.action.nonce = q.action.nonce
                /\ a.signed[1].value.nonce = BigIntOfString(a.reported[1])
                /\ p.nonce = BigIntOfString(a.reported[1]).mag

\* C5: a link run whose submission the service rejected ends with exit code 1
\* and the service's answer on stderr, and posted once
C5_RejectionFailsTheRun ==
    (IsLinkRun /\ response # <<>> /\ response[1].data = "err") =>
        /\ Len(Posts) = 1
        /\ (pc = "exited" => exitCode = 1 /\ stderr = <<"err">>)

\* C6: in every posted link payload the top-level nonce, the nonce of the
\* action and the nonce that was signed are one number
C6_OneNonce ==
    IsLinkRun =>
        \A i \in 1..Len(Posts) :
            /\ Posts[i].body.nonce = Posts[i].body.action.nonce
            /\ Posts[i].body.nonce = Posts[i].body.signature.value.nonce.mag

\* the errors of a missing or invalid configuration value
ConfigErrors ==
    { "Missing required env var", "Cannot convert to a BigInt",
      "Unexpected end of JSON input", "SIGN_MODE must be 'personal' or 'typed'",
      "invalid private key", "invalid FixedNumber string value",
      "invalid typed data", "invalid value for type" }

\* C7: a run that fails on a missing or invalid configuration value has made
\* no RPC query, no signature and no HTTP submission
C7_ConfigFailsFirst ==
    (pc = "catch" /\ error[1].message \in ConfigErrors) =>
        /\ net = <<>>
        /\ signed = <<>>

\* C8: a run signs at most once and submits at most once, and a run whose
\* submission was rejected or timed out ends with exit code 1
C8_NoRetry ==
    /\ Len(signed) <= 1
    /\ Len(Posts) <= 1
    /\ (response # <<>> /\ response[1].settled = "rejected") =>
          /\ pc \in {"catch", "exited"}
          /\ (pc = "exited" => exitCode = 1)

C8_Witness ==
    /\ pc = "exited"
    /\ exitCode = 1
    /\ response # <<>>
    /\ response[1].settled = "rejected"
    /\ response[1].status = 0
    /\ Len(Posts) = 1
    /\ Len(signed) = 1

\* the comparison of signLinkAction, made on the recorded addresses
Mismatch(c) == toLowerCase(c.recovered) # toLowerCase(c.expected)

\* C9: in the link flow a recovered address that differs from the wallet's,
\* case ignored, makes signLinkAction throw: nothing is posted and the run
\* ends with exit code 1; and a payload is posted only after the comparison
\* found the two addresses equal
C9_MismatchStopsTheRun ==
    (IsLinkRun /\ checks # <<>>) =>
        LET c == checks[Len(checks)]
        IN  /\ (Mismatch(c) /\ pc # "compare") =>
                  /\ Posts = <<>>
                  /\ response = <<>>
                  /\ error # <<>>
                  /\ error[1].message = "Local EIP-712 recovery mismatch"
                  /\ pc \in {"catch", "exited"}
                  /\ (pc = "exited" => exitCode = 1)
            /\ Posts # <<>> => (~Mismatch(c) /\ c.equal)

C9_Witness ==
    /\ IsLinkRun
    /\ checks # <<>>
    /\ Mismatch(checks[Len(checks)])
    /\ pc = "exited"
    /\ exitCode = 1
    /\ signed # <<>>

\* two runs of the two finalizer scripts with one configuration and one clock
SameFinalizerConfig(a, b) ==
    /\ {a.script, b.script} = {"link", "staking"}
    /\ IsFinalizerRun(a)
    /\ IsFinalizerRun(b)
    /\ [a.env EXCEPT !.IS_FINALIZE = Undef] = [b.env EXCEPT !.IS_FINALIZE = Undef]
    /\ a.clock = b.clock

\* C10: with one configuration the combined script with IS_FINALIZE=true and
\* the standalone staking script sign the same typed value and post the same
\* payload to the same endpoint, or both fail before signing
C10_FinalizersAgree ==
    \A i \in 1..Len(history), j \in 1..Len(history) :
        SameFinalizerConfig(history[i], history[j]) =>
            /\ history[i].signed = history[j].signed
            /\ (HasPosted(history[i]) /\ HasPosted(history[j])) =>
                  SelectSeq(history[i].net, IsPost) = SelectSeq(history[j].net, IsPost)

\* the values of the two networks
TestnetValues ==
    [ chain |-> "Testnet", signatureChainId |-> <<"0", "x", "3", "e", "6">>,
      chainId |-> 998, url |-> "https://api-ui.hyperliquid-testnet.xyz/exchange" ]

MainnetValues ==
    [ chain |-> "Mainnet", signatureChainId |-> <<"0", "x", "1">>,
      chainId |-> 1, url |-> "https://api-ui.hyperliquid.xyz/exchange" ]

\* a posted request carries the four values of network n: the chain name and
\* the signature chain id of the payload, the chain id of the domain its
\* signature was made under, and the URL it went to
OnNetwork(p, n) ==
    /\ p.body.action.hyperliquidChain = n.chain
    /\ p.body.action.signatureChainId = n.signatureChainId
    /\ ~p.body.signature.domain.chainId.nan
    /\ p.body.signature.domain.chainId.val = n.chainId
    /\ p.url = n.url

\* a posted request carries at least one of the four values of network n
TouchesNetwork(p, n) ==
    \/ p.body.action.hyperliquidChain = n.chain
    \/ p.body.action.signatureChainId = n.signatureChainId
    \/ (~p.body.signature.domain.chainId.nan /\ p.body.signature.domain.chainId.val = n.chainId)
    \/ p.url = n.url

\* C11: every link payload that is posted carries the values of one network:
\* hyperliquidChain is "Testnet" exactly when signatureChainId is 0x3e6, the
\* chainId of the signing domain is 998 and the URL is the testnet one, and
\* "Mainnet" exactly when they are 0x1, 1 and the mainnet URL; the network is
\* the one HYPERLIQUID_TESTNET selects, the typed value that was signed names
\* the same chain, and no run posts to both networks
C11_OneNetworkPerRun ==
    IsLinkRun =>
        LET n == IF env.HYPERLIQUID_TESTNET = Str(False) THEN MainnetValues
                 ELSE TestnetValues
            m == IF env.HYPERLIQUID_TESTNET = Str(False) THEN TestnetValues
                 ELSE MainnetValues
        IN  /\ \A i \in 1..Len(Posts) :
                  /\ OnNetwork(Posts[i], n)
                  /\ ~TouchesNetwork(Posts[i], m)
                  /\ Posts[i].body.signature.value.hyperliquidChain = n.chain
            /\ \A i \in 1..Len(signed) :
                  /\ signed[i].value.hyperliquidChain = n.chain
                  /\ signed[i].domain.chainId.val = n.chainId

\* HYPERLIQUID_TESTNET=false: a Finalizer run has posted on the main network
\* after the Initiator run of the same configuration did
C11_Witness ==
    /\ IsLinkRun
    /\ IsFinalizer
    /\ env.HYPERLIQUID_TESTNET = Str(False)
    /\ Posts # <<>>
    /\ OnNetwork(Posts[1], MainnetValues)
    /\ \E i \in 1..Len(history) :
          /\ IsInitiatorRun(history[i])
          /\ HasPosted(history[i])
          /\ OnNetwork(SelectSeq(history[i].net, IsPost)[1], MainnetValues)

====
